---- MODULE Spec2Model ----
(***************************************************************************)
(* Model of the query-tree resolver and the criteria builder of milli      *)
(* (milli/src/search/criteria/mod.rs).                                     *)
(*                                                                         *)
(* The index facade (trait Context) is a record of partial maps; every     *)
(* resolver function is an operator that threads the state it may touch    *)
(* (the log of Context calls, the word-derivations cache and the resolver  *)
(* cache) and returns a Result.                                            *)
(***************************************************************************)
EXTENDS Integers, Sequences, FiniteSets, TLC

VARIABLES
    ctx,      \* the index snapshot behind `ctx: &dyn Context`
    call,     \* the last call made, with its arguments
    ret,      \* what that call returned: [ok, v]
    log,      \* the Context methods that call invoked, in order
    wdcache,  \* the WordDerivationsCache after the call
    cache     \* the resolver cache after the call

vars == <<ctx, call, ret, log, wdcache, cache>>

----------------------------------------------------------------------------
(* Bounds of the model *)

\* document identifiers are 1..MaxDoc
MaxDoc == 2
\* a Tolerant query accepts 0..MaxTypo typos
MaxTypo == 1
\* a query tree has at most MaxNodes nodes
MaxNodes == 4
\* the index lists at most MaxCriteria criteria
MaxCriteria == 3
\* a string of a pair-proximity key has at most MaxLen bytes
MaxLen == 2

(* Program constants *)

\* `if proximity >= 8`: the pair tables stop at proximity 7
ProximityCap == 8
\* the proximity of two Consecutive neighbours
ConsecutiveProximity == 1
\* proximity is a u8
MaxU8 == 255
\* the byte between the two strings of a pair-proximity key
NUL == 0

Docs == 1..MaxDoc
Bitmaps == SUBSET Docs

\* words are byte strings; the dictionary of the model
A  == <<1>>
AB == <<1, 2>>
BB == <<2, 2>>
Vocab == {A, AB, BB}

Typos == 0..MaxTypo

\* the proximities the calls are made with
Proximities == {ConsecutiveProximity, ProximityCap - 1, ProximityCap, MaxU8}
\* the proximities the pair tables may hold entries for
TableProximities == {ConsecutiveProximity, ProximityCap - 1}

----------------------------------------------------------------------------
(* Result, Option *)

Ok(v, st) == [ok |-> TRUE, v |-> v, err |-> "", st |-> st]
Err(e, st) == [ok |-> FALSE, v |-> {}, err |-> e, st |-> st]

Some(b) == <<b>>
None == <<>>
unwrap_or_default(o) == IF o = None THEN {} ELSE o[1]

StorageError == "storage read error"
InvalidConsecutive == "invalid consecutive query type"

\* the state a resolver call threads: log, wdcache, cache
St(l, w, c) == [log |-> l, wdcache |-> w, cache |-> c]
Logged(st, ev) == [st EXCEPT !.log = Append(@, ev)]

\* `let x = r?; ...`: an Err is returned as it is, an Ok value is handed on
Try(r, Then(_)) == IF ~r.ok THEN r ELSE Then(r)

----------------------------------------------------------------------------
(* trait Context *)

\* a lookup that takes a missing key for a failure
TableGetOrFail(c, table, key, st) ==
    LET st1 == Logged(st, <<table, key>>)
    IN  IF table \in c.failing \/ key \notin DOMAIN c[table]
        THEN Err(StorageError, st1)
        ELSE Ok(Some(c[table][key]), st1)

\* self.index.<table>.get(self.rtxn, &key)
TableGet(c, table, key, st) ==
    LET st1 == Logged(st, <<table, key>>)
    IN  IF table \in c.failing
        THEN Err(StorageError, st1)
        ELSE Ok(IF key \in DOMAIN c[table] THEN Some(c[table][key]) ELSE None, st1)

word_docids(c, word, st) == TableGet(c, "word_docids", word, st)

word_prefix_docids(c, word, st) == TableGet(c, "word_prefix_docids", word, st)

word_pair_proximity_docids(c, left, right, proximity, st) ==
    TableGet(c, "word_pair_proximity_docids", <<left, right, proximity>>, st)

word_prefix_pair_proximity_docids(c, left, right, proximity, st) ==
    TableGet(c, "word_prefix_pair_proximity_docids", <<left, right, proximity>>, st)

\* in_prefix_cache answering true for every word
in_prefix_cache_always(c, word, st) ==
    Ok(TRUE, Logged(st, <<"in_prefix_cache", word>>))

in_prefix_cache(c, word, st) ==
    Ok(word \in c.words_prefixes_fst, Logged(st, <<"in_prefix_cache", word>>))

----------------------------------------------------------------------------
(* word_derivations: the dictionary words a Levenshtein automaton of radius *)
(* max_typo built on `word` accepts (on a prefix of the dictionary word     *)
(* when is_prefix), in the order of the FST, memoised in the cache          *)

Min2(x, y) == IF x <= y THEN x ELSE y

RECURSIVE Levenshtein(_, _)
Levenshtein(a, b) ==
    IF Len(a) = 0 THEN Len(b)
    ELSE IF Len(b) = 0 THEN Len(a)
    ELSE Min2(Min2(Levenshtein(Tail(a), b) + 1, Levenshtein(a, Tail(b)) + 1),
              Levenshtein(Tail(a), Tail(b)) + (IF Head(a) = Head(b) THEN 0 ELSE 1))

\* the least distance of `word` to a prefix of `target`
RECURSIVE PrefixDistance(_, _, _)
PrefixDistance(word, target, k) ==
    IF k = 0 THEN Levenshtein(word, <<>>)
    ELSE Min2(Levenshtein(word, SubSeq(target, 1, k)), PrefixDistance(word, target, k - 1))

dfa_distance(word, is_prefix, target) ==
    IF is_prefix THEN PrefixDistance(word, target, Len(target))
    ELSE Levenshtein(word, target)

\* the byte order of the FST
RECURSIVE LexLess(_, _)
LexLess(a, b) ==
    IF Len(b) = 0 THEN FALSE
    ELSE IF Len(a) = 0 THEN TRUE
    ELSE IF Head(a) # Head(b) THEN Head(a) < Head(b)
    ELSE LexLess(Tail(a), Tail(b))

RECURSIVE fst_stream(_)
fst_stream(words) ==
    IF words = {} THEN <<>>
    ELSE LET first == CHOOSE w \in words : \A x \in words \ {w} : LexLess(w, x)
         IN  <<first>> \o fst_stream(words \ {first})

derived_words(word, is_prefix, max_typo, fst) ==
    LET accepted == {w \in fst : dfa_distance(word, is_prefix, w) <= max_typo}
        stream == fst_stream(accepted)
    IN  [i \in 1..Len(stream) |-> <<stream[i], dfa_distance(word, is_prefix, stream[i])>>]

word_derivations(word, is_prefix, max_typo, fst, st) ==
    LET key == <<word, is_prefix, max_typo>>
    IN  IF key \in DOMAIN st.wdcache
        THEN Ok(st.wdcache[key], st)
        ELSE LET found == derived_words(word, is_prefix, max_typo, fst)
                 st1 == Logged(st, <<"words_fst", key>>)
             IN  Ok(found, [st1 EXCEPT !.wdcache = (key :> found) @@ @])

----------------------------------------------------------------------------
(* Query, Operation *)

Exact(word, prefix) == [kind |-> "Exact", word |-> word, typo |-> 0, prefix |-> prefix]
Tolerant(word, typo, prefix) == [kind |-> "Tolerant", word |-> word, typo |-> typo, prefix |-> prefix]

\* the words the queries are made of
QueryWords == {A, AB}

Queries ==
    {Exact(w, p) : w \in QueryWords, p \in BOOLEAN}
    \cup {Tolerant(w[1], w[2], p) : w \in QueryWords \X Typos, p \in BOOLEAN}

And(ops) == [op |-> "And", ops |-> ops]
Or(flag, ops) == [op |-> "Or", flag |-> flag, ops |-> ops]
Consecutive(ops) == [op |-> "Consecutive", ops |-> ops]
Query(q) == [op |-> "Query", q |-> q]

----------------------------------------------------------------------------
(* all_word_pair_proximity_docids *)

RECURSIVE all_word_pair_proximity_docids_loop(_, _, _, _, _, _, _, _)
all_word_pair_proximity_docids_loop(c, left_words, right_words, proximity, i, j, docids, st) ==
    IF i > Len(left_words) THEN Ok(docids, st)
    ELSE IF j > Len(right_words)
    THEN all_word_pair_proximity_docids_loop(c, left_words, right_words, proximity, i + 1, 1, docids, st)
    ELSE Try(word_pair_proximity_docids(c, left_words[i][1], right_words[j][1], proximity, st),
             LAMBDA r : all_word_pair_proximity_docids_loop(
                            c, left_words, right_words, proximity, i, j + 1,
                            docids \cup unwrap_or_default(r.v), r.st))

\* all_word_pair_proximity_docids reading the tables at the proximity of neighbours
all_word_pair_proximity_docids_neighbours(c, left_words, right_words, proximity, st) ==
    all_word_pair_proximity_docids_loop(
        c, left_words, right_words, ConsecutiveProximity, 1, 1, {}, st)

all_word_pair_proximity_docids(c, left_words, right_words, proximity, st) ==
    all_word_pair_proximity_docids_loop(c, left_words, right_words, proximity, 1, 1, {}, st)

----------------------------------------------------------------------------
(* query_docids *)

\* for (word, _typo) in words { docids.union_with(ctx.word_docids(word)?) }
RECURSIVE union_word_docids(_, _, _, _, _)
union_word_docids(c, words, i, docids, st) ==
    IF i > Len(words) THEN Ok(docids, st)
    ELSE Try(word_docids(c, words[i][1], st),
             LAMBDA r : union_word_docids(c, words, i + 1,
                                          docids \cup unwrap_or_default(r.v), r.st))

\* Ok(r?.unwrap_or_default())
unwrapped(r) == Try(r, LAMBDA o : Ok(unwrap_or_default(o.v), o.st))

\* query_docids_exact reading the prefix posting list without the cache test
query_docids_exact_untested(c, word, prefix, st) ==
    IF prefix
    THEN unwrapped(word_prefix_docids(c, word, st))
    ELSE unwrapped(word_docids(c, word, st))

\* QueryKind::Exact { word, .. }
query_docids_exact(c, word, prefix, st) ==
    Try(IF prefix THEN in_prefix_cache(c, word, st) ELSE Ok(FALSE, st),
        LAMBDA cached :
            IF prefix /\ cached.v
            THEN unwrapped(word_prefix_docids(c, word, cached.st))
            ELSE IF prefix
            THEN Try(word_derivations(word, TRUE, 0, c.words_fst, cached.st),
                     LAMBDA words : union_word_docids(c, words.v, 1, {}, words.st))
            ELSE unwrapped(word_docids(c, word, cached.st)))

\* QueryKind::Tolerant { typo, word }
query_docids_tolerant(c, typo, word, prefix, st) ==
    Try(word_derivations(word, prefix, typo, c.words_fst, st),
        LAMBDA words : union_word_docids(c, words.v, 1, {}, words.st))

query_docids(c, query, st) ==
    IF query.kind = "Exact"
    THEN query_docids_exact(c, query.word, query.prefix, st)
    ELSE query_docids_tolerant(c, query.typo, query.word, query.prefix, st)

----------------------------------------------------------------------------
(* query_pair_proximity_docids *)

\* for (left, _) in l_words { docids.union_with(ctx.word_prefix_pair_proximity_docids(left, right, p)?) }
RECURSIVE union_prefix_pair_docids(_, _, _, _, _, _, _)
union_prefix_pair_docids(c, l_words, right, proximity, i, docids, st) ==
    IF i > Len(l_words) THEN Ok(docids, st)
    ELSE Try(word_prefix_pair_proximity_docids(c, l_words[i][1], right, proximity, st),
             LAMBDA r : union_prefix_pair_docids(c, l_words, right, proximity, i + 1,
                                                 docids \cup unwrap_or_default(r.v), r.st))

\* proximity_collapse with union_with in the place of intersect_with
proximity_collapse_union(c, left, right, st) ==
    Try(query_docids(c, left, st),
        LAMBDA candidates :
            Try(query_docids(c, right, candidates.st),
                LAMBDA right_candidates :
                    Ok(candidates.v \cup right_candidates.v, right_candidates.st)))

\* if proximity >= 8 { ... }
proximity_collapse(c, left, right, st) ==
    Try(query_docids(c, left, st),
        LAMBDA candidates :
            Try(query_docids(c, right, candidates.st),
                LAMBDA right_candidates :
                    Ok(candidates.v \cap right_candidates.v, right_candidates.st)))

\* (QueryKind::Exact, QueryKind::Exact)
exact_exact(c, left, right, prefix, proximity, st) ==
    Try(IF prefix THEN in_prefix_cache(c, right, st) ELSE Ok(FALSE, st),
        LAMBDA cached :
            IF prefix /\ cached.v
            THEN unwrapped(word_prefix_pair_proximity_docids(
                               c, left, right, proximity, cached.st))
            ELSE IF prefix
            THEN Try(word_derivations(right, TRUE, 0, c.words_fst, cached.st),
                     LAMBDA r_words :
                         all_word_pair_proximity_docids(
                             c, <<(<<left, 0>>)>>, r_words.v, proximity, r_words.st))
            ELSE unwrapped(word_pair_proximity_docids(c, left, right, proximity, cached.st)))

\* the arms of (QueryKind::Tolerant, QueryKind::Exact) once the left word is derived
tolerant_exact_arms(c, l_words, right, prefix, proximity, cached) ==
    IF prefix /\ cached.v
    THEN union_prefix_pair_docids(c, l_words, right, proximity, 1, {}, cached.st)
    ELSE IF prefix
    THEN Try(word_derivations(right, TRUE, 0, c.words_fst, cached.st),
             LAMBDA r_words :
                 all_word_pair_proximity_docids(c, l_words, r_words.v, proximity, r_words.st))
    ELSE all_word_pair_proximity_docids(c, l_words, <<(<<right, 0>>)>>, proximity, cached.st)

\* (QueryKind::Tolerant, QueryKind::Exact)
tolerant_exact(c, typo, left, right, prefix, proximity, st) ==
    Try(word_derivations(left, FALSE, typo, c.words_fst, st),
        LAMBDA l_words :
            tolerant_exact_arms(
                c, l_words.v, right, prefix, proximity,
                IF prefix THEN in_prefix_cache(c, right, l_words.st) ELSE Ok(FALSE, l_words.st)))

\* (QueryKind::Exact, QueryKind::Tolerant)
exact_tolerant(c, left, typo, right, prefix, proximity, st) ==
    Try(word_derivations(right, prefix, typo, c.words_fst, st),
        LAMBDA r_words :
            all_word_pair_proximity_docids(
                c, <<(<<left, 0>>)>>, r_words.v, proximity, r_words.st))

\* tolerant_tolerant deriving the left word with the prefix flag of the right one
tolerant_tolerant_left_prefix(c, l_typo, left, r_typo, right, prefix, proximity, st) ==
    Try(word_derivations(left, prefix, l_typo, c.words_fst, st),
        LAMBDA l_words :
            Try(word_derivations(right, prefix, r_typo, c.words_fst, l_words.st),
                LAMBDA r_words :
                    all_word_pair_proximity_docids(
                        c, l_words.v, r_words.v, proximity, r_words.st)))

\* (QueryKind::Tolerant, QueryKind::Tolerant)
tolerant_tolerant(c, l_typo, left, r_typo, right, prefix, proximity, st) ==
    Try(word_derivations(left, FALSE, l_typo, c.words_fst, st),
        LAMBDA l_words :
            Try(word_derivations(right, prefix, r_typo, c.words_fst, l_words.st),
                LAMBDA r_words :
                    all_word_pair_proximity_docids(
                        c, l_words.v, r_words.v, proximity, r_words.st)))

query_pair_proximity_docids(c, left, right, proximity, st) ==
    IF proximity >= ProximityCap
    THEN proximity_collapse(c, left, right, st)
    ELSE LET prefix == right.prefix
         IN  CASE left.kind = "Exact" /\ right.kind = "Exact" ->
                    exact_exact(c, left.word, right.word, prefix, proximity, st)
               [] left.kind = "Tolerant" /\ right.kind = "Exact" ->
                    tolerant_exact(c, left.typo, left.word, right.word, prefix, proximity, st)
               [] left.kind = "Exact" /\ right.kind = "Tolerant" ->
                    exact_tolerant(c, left.word, right.typo, right.word, prefix, proximity, st)
               [] left.kind = "Tolerant" /\ right.kind = "Tolerant" ->
                    tolerant_tolerant(c, left.typo, left.word, right.typo, right.word,
                                      prefix, proximity, st)

----------------------------------------------------------------------------
(* resolve_query_tree *)

\* ops.sort_unstable_by_key(|cds| cds.len()): an insertion sort; the order of
\* bitmaps of equal cardinality is not fixed by an unstable sort: `ties`
\* says whether an equal key is placed after (TRUE) or before the others
RECURSIVE sort_insert(_, _, _)
sort_insert(sorted, docids, ties) ==
    IF sorted = <<>> THEN <<docids>>
    ELSE IF \/ Cardinality(docids) < Cardinality(Head(sorted))
            \/ (~ties /\ Cardinality(docids) = Cardinality(Head(sorted)))
    THEN <<docids>> \o sorted
    ELSE <<Head(sorted)>> \o sort_insert(Tail(sorted), docids, ties)

RECURSIVE sort_unstable_by_key(_, _)
sort_unstable_by_key(ops, ties) ==
    IF ops = <<>> THEN <<>>
    ELSE sort_insert(sort_unstable_by_key(SubSeq(ops, 1, Len(ops) - 1), ties), ops[Len(ops)], ties)

\* and_loop without first_loop: the first bitmap is intersected with the empty one
RECURSIVE and_loop_no_first(_, _, _, _)
and_loop_no_first(ops, i, candidates, first_loop) ==
    IF i > Len(ops) THEN candidates
    ELSE and_loop_no_first(ops, i + 1, candidates \cap ops[i], FALSE)

\* for docids in ops { if first_loop { candidates = docids } else { candidates.intersect_with(&docids) } }
RECURSIVE and_loop(_, _, _, _)
and_loop(ops, i, candidates, first_loop) ==
    IF i > Len(ops) THEN candidates
    ELSE IF first_loop THEN and_loop(ops, i + 1, ops[i], FALSE)
    ELSE and_loop(ops, i + 1, candidates \cap ops[i], FALSE)

RECURSIVE resolve_operation(_, _, _, _)
RECURSIVE resolve_all(_, _, _, _, _, _)
RECURSIVE or_loop(_, _, _, _, _, _)

\* ops.iter().map(resolve_operation).collect::<Result<Vec<_>>>()?
resolve_all(c, ops, i, resolved, ties, st) ==
    IF i > Len(ops) THEN Ok(resolved, st)
    ELSE Try(resolve_operation(c, ops[i], ties, st),
             LAMBDA r : resolve_all(c, ops, i + 1, Append(resolved, r.v), ties, r.st))

\* or_loop that keeps the last child's documents only
RECURSIVE or_loop_last(_, _, _, _, _, _)
or_loop_last(c, ops, i, candidates, ties, st) ==
    IF i > Len(ops) THEN Ok(candidates, st)
    ELSE Try(resolve_operation(c, ops[i], ties, st),
             LAMBDA docids : or_loop_last(c, ops, i + 1, docids.v, ties, docids.st))

or_loop(c, ops, i, candidates, ties, st) ==
    IF i > Len(ops) THEN Ok(candidates, st)
    ELSE Try(resolve_operation(c, ops[i], ties, st),
             LAMBDA docids :
                 or_loop(c, ops, i + 1, candidates \cup docids.v, ties, docids.st))

\* consecutive_loop where first_loop is never cleared: the last pair wins
RECURSIVE consecutive_loop_first(_, _, _, _, _, _)
consecutive_loop_first(c, ops, i, candidates, first_loop, st) ==
    IF i + 1 > Len(ops) THEN Ok(candidates, st)
    ELSE IF ops[i].op = "Query" /\ ops[i + 1].op = "Query"
    THEN Try(query_pair_proximity_docids(c, ops[i].q, ops[i + 1].q, ConsecutiveProximity, st),
             LAMBDA pair_docids :
                 IF pair_docids.v = {} THEN Ok({}, pair_docids.st)
                 ELSE consecutive_loop_first(c, ops, i + 1, pair_docids.v, TRUE,
                                             pair_docids.st))
    ELSE Err(InvalidConsecutive, st)

\* for slice in ops.windows(2) { ... }
RECURSIVE consecutive_loop(_, _, _, _, _, _)
consecutive_loop(c, ops, i, candidates, first_loop, st) ==
    IF i + 1 > Len(ops) THEN Ok(candidates, st)
    ELSE IF ops[i].op = "Query" /\ ops[i + 1].op = "Query"
    THEN Try(query_pair_proximity_docids(c, ops[i].q, ops[i + 1].q, ConsecutiveProximity, st),
             LAMBDA pair_docids :
                 IF pair_docids.v = {} THEN Ok({}, pair_docids.st)
                 ELSE consecutive_loop(
                          c, ops, i + 1,
                          IF first_loop THEN pair_docids.v ELSE candidates \cap pair_docids.v,
                          FALSE, pair_docids.st))
    ELSE Err(InvalidConsecutive, st)

resolve_operation(c, query_tree, ties, st) ==
    CASE query_tree.op = "And" ->
            Try(resolve_all(c, query_tree.ops, 1, <<>>, ties, st),
                LAMBDA ops :
                    Ok(and_loop(sort_unstable_by_key(ops.v, ties), 1, {}, TRUE), ops.st))
      [] query_tree.op = "Consecutive" ->
            consecutive_loop(c, query_tree.ops, 1, {}, TRUE, st)
      [] query_tree.op = "Or" ->
            or_loop(c, query_tree.ops, 1, {}, ties, st)
      [] query_tree.op = "Query" ->
            query_docids(c, query_tree.q, st)

\* resolve_query_tree answering from the resolver cache and filling it
resolve_query_tree_cached(c, query_tree, ties, st) ==
    IF <<query_tree, 0>> \in DOMAIN st.cache
    THEN Ok(st.cache[<<query_tree, 0>>], st)
    ELSE Try(resolve_operation(c, query_tree, ties, st),
             LAMBDA r : Ok(r.v, [r.st EXCEPT !.cache = (<<query_tree, 0>> :> r.v) @@ @]))

resolve_query_tree(c, query_tree, ties, st) ==
    resolve_operation(c, query_tree, ties, st)

----------------------------------------------------------------------------
(* CriteriaBuilder::build *)

\* crate::criterion::Criterion: the names build has an arm for, and the others
RecognizedNames == {"Typo", "Words", "Proximity", "Asc", "Desc"}
OtherNames == {"Attribute"}
Names == RecognizedNames \cup OtherNames

\* Typo::new, Words::new, Proximity::new, AscDesc::asc, AscDesc::desc
Wrapping(name, father) ==
    [criterion |-> name, initial |-> FALSE, parent |-> Some(father),
     query_tree |-> None, facet_candidates |-> None]

\* an initial criterion that is not handed the facet candidates
InitialWithoutFacets(name, query_tree, facet_candidates) ==
    [criterion |-> name, initial |-> TRUE, parent |-> None,
     query_tree |-> query_tree, facet_candidates |-> None]

\* Typo::initial, Words::initial, Proximity::initial, AscDesc::initial_asc, AscDesc::initial_desc
Initial(name, query_tree, facet_candidates) ==
    [criterion |-> name, initial |-> TRUE, parent |-> None,
     query_tree |-> query_tree, facet_candidates |-> facet_candidates]

\* Fetcher::new
FetcherNew(criterion) ==
    [criterion |-> "Fetcher", initial |-> FALSE, parent |-> Some(criterion),
     query_tree |-> None, facet_candidates |-> None]

\* Fetcher::initial
FetcherInitial(query_tree, facet_candidates) ==
    [criterion |-> "Fetcher", initial |-> TRUE, parent |-> None,
     query_tree |-> query_tree, facet_candidates |-> facet_candidates]

\* AscDesc's constructors read the index and end in `?`
AscDescFails(c, name) == name \in {"Asc", "Desc"} /\ "faceted_fields" \in c.failing

\* self.index.criteria(&self.rtxn)
criteria(c, st) ==
    LET st1 == Logged(st, <<"criteria", <<>>>>)
    IN  IF "criteria" \in c.failing THEN Err(StorageError, st1) ELSE Ok(c.criteria, st1)

\* for name in self.index.criteria(&self.rtxn)? { ... }
RECURSIVE build_loop(_, _, _, _, _, _, _)
build_loop(c, names, i, criterion, query_tree, facet_candidates, st) ==
    IF i > Len(names)
    THEN IF criterion # None
         THEN Ok(FetcherNew(criterion[1]), st)
         ELSE Ok(FetcherInitial(query_tree, facet_candidates), st)
    ELSE LET name == names[i]
         IN  IF criterion # None
             THEN IF name \in RecognizedNames
                  THEN IF AscDescFails(c, name) THEN Err(StorageError, st)
                       ELSE build_loop(c, names, i + 1, Some(Wrapping(name, criterion[1])),
                                       query_tree, facet_candidates, st)
                  ELSE build_loop(c, names, i + 1, Some(criterion[1]),
                                  query_tree, facet_candidates, st)
             ELSE IF name \in RecognizedNames
                  THEN IF AscDescFails(c, name) THEN Err(StorageError, st)
                       ELSE build_loop(c, names, i + 1,
                                       Some(Initial(name, query_tree, facet_candidates)),
                                       None, None, st)
                  ELSE build_loop(c, names, i + 1, None, query_tree, facet_candidates, st)

build(c, query_tree, facet_candidates, st) ==
    Try(criteria(c, st),
        LAMBDA names :
            build_loop(c, names.v, 1, None, query_tree, facet_candidates, names.st))

----------------------------------------------------------------------------
(* StrStrU8Codec: the key codec of the pair-proximity tables *)

\* the bytes of the model: NUL, an ASCII byte, and the two bytes of U+00E9
Alphabet == {NUL, 1, 195, 169}

RECURSIVE BytesUpTo(_)
BytesUpTo(n) ==
    IF n = 0 THEN {<<>>}
    ELSE BytesUpTo(n - 1)
         \cup {Append(b, x) : b \in {y \in BytesUpTo(n - 1) : Len(y) = n - 1}, x \in Alphabet}

\* str::from_utf8 for bytes below 0xE0: an ASCII byte, or a lead byte
\* 0xC2..0xDF followed by a continuation byte 0x80..0xBF
RECURSIVE is_utf8(_)
is_utf8(bytes) ==
    IF bytes = <<>> THEN TRUE
    ELSE IF bytes[1] < 128 THEN is_utf8(Tail(bytes))
    ELSE IF bytes[1] >= 194 /\ bytes[1] <= 223
    THEN /\ Len(bytes) >= 2
         /\ bytes[2] >= 128 /\ bytes[2] <= 191
         /\ is_utf8(Tail(Tail(bytes)))
    ELSE FALSE

from_utf8(bytes) == IF is_utf8(bytes) THEN Some(bytes) ELSE None

\* bytes.iter().position(|b| *b == 0), counted from 0
position(bytes, b) ==
    IF \A i \in 1..Len(bytes) : bytes[i] # b THEN None
    ELSE Some((CHOOSE i \in 1..Len(bytes) :
                  bytes[i] = b /\ \A j \in 1..(i - 1) : bytes[j] # b) - 1)

\* the rest of bytes_decode once s1_end is known
decode_at(n, bytes, s1_end) ==
    IF s1_end = None THEN None
    ELSE IF from_utf8(SubSeq(bytes, 1, s1_end[1])) = None THEN None
    ELSE IF from_utf8(SubSeq(bytes, s1_end[1] + 2, Len(bytes))) = None THEN None
    ELSE Some(<<from_utf8(SubSeq(bytes, 1, s1_end[1]))[1],
                from_utf8(SubSeq(bytes, s1_end[1] + 2, Len(bytes)))[1],
                n>>)

\* bytes_decode splitting at the last NUL byte
bytes_decode_rposition(bytes) ==
    IF bytes = <<>> THEN None
    ELSE decode_at(bytes[Len(bytes)], SubSeq(bytes, 1, Len(bytes) - 1),
                   IF \A i \in 1..(Len(bytes) - 1) : bytes[i] # NUL THEN None
                   ELSE Some((CHOOSE i \in 1..(Len(bytes) - 1) :
                                 /\ bytes[i] = NUL
                                 /\ \A j \in (i + 1)..(Len(bytes) - 1) : bytes[j] # NUL) - 1))

bytes_decode(bytes) ==
    IF bytes = <<>> THEN None
    ELSE decode_at(bytes[Len(bytes)], SubSeq(bytes, 1, Len(bytes) - 1),
                   position(SubSeq(bytes, 1, Len(bytes) - 1), NUL))

bytes_encode(s1, s2, n) == Some(s1 \o <<NUL>> \o s2 \o <<n>>)

----------------------------------------------------------------------------
(* The calls *)

\* one call is made on an index snapshot
Idle == call.fn = "none"

Returned(r) == [ok |-> r.ok, v |-> r.v, err |-> r.err]

\* a search starts with an empty WordDerivationsCache and hands its resolver cache
Fresh == St(<<>>, <<>>, cache)

Ends(r) ==
    /\ ret' = Returned(r)
    /\ log' = r.st.log
    /\ wdcache' = r.st.wdcache
    /\ cache' = r.st.cache
    /\ UNCHANGED ctx

QueryDocids(query) ==
    /\ Idle
    /\ call' = [fn |-> "query_docids", args |-> <<query>>]
    /\ Ends(query_docids(ctx, query, Fresh))

QueryPairProximityDocids(left, right, proximity) ==
    /\ Idle
    /\ call' = [fn |-> "query_pair_proximity_docids", args |-> <<left, right, proximity>>]
    /\ Ends(query_pair_proximity_docids(ctx, left, right, proximity, Fresh))

ResolveQueryTree(query_tree, ties) ==
    /\ Idle
    /\ call' = [fn |-> "resolve_query_tree", args |-> <<query_tree>>]
    /\ Ends(resolve_query_tree(ctx, query_tree, ties, Fresh))

Build(query_tree, facet_candidates) ==
    /\ Idle
    /\ call' = [fn |-> "build", args |-> <<query_tree, facet_candidates>>]
    /\ Ends(build(ctx, query_tree, facet_candidates, Fresh))

NoCall ==
    /\ call = [fn |-> "none", args |-> <<>>]
    /\ ret = [ok |-> TRUE, v |-> {}, err |-> ""]
    /\ log = <<>>
    /\ wdcache = <<>>
    /\ cache = <<>>

----------------------------------------------------------------------------
(* The index snapshots *)

Index(wd, wpd, wpp, wppp, fst, pfst, names, failing) ==
    [word_docids |-> wd,
     word_prefix_docids |-> wpd,
     word_pair_proximity_docids |-> wpp,
     word_prefix_pair_proximity_docids |-> wppp,
     words_fst |-> fst,
     words_prefixes_fst |-> pfst,
     criteria |-> names,
     failing |-> failing]

NoEntry == <<>>

\* the tables of at most one entry over `keys`, its posting list not empty
OneEntry(keys) == {NoEntry} \cup {k :> b : k \in keys, b \in {{1}, Docs}}

FixtureWordDocids == (A :> {1}) @@ (AB :> Docs) @@ (BB :> {MaxDoc})
FixtureWordPrefixDocids == (A :> Docs)

PairKeys == Vocab \X Vocab \X TableProximities
PrefixPairKeys == Vocab \X QueryWords \X TableProximities

\* pair tables with a posting list under every key
FixturePairDocids == [k \in PairKeys |-> IF k[1] = k[2] THEN {1} ELSE {MaxDoc}]
FixturePrefixPairDocids == [k \in PrefixPairKeys |-> IF k[1] = A THEN {MaxDoc} ELSE {1}]

\* one posting list in the pair tables, or one under every key, with or
\* without A in the prefix cache
PairIndexes ==
    {Index(FixtureWordDocids, FixtureWordPrefixDocids, t[1], t[2], Vocab, pfst, <<>>, {}) :
        t \in (OneEntry(PairKeys) \X {NoEntry})
              \cup ({NoEntry} \X OneEntry(PrefixPairKeys))
              \cup {<<FixturePairDocids, FixturePrefixPairDocids>>},
        pfst \in {{}, {A}}}

InitPair == NoCall /\ ctx \in PairIndexes

NextPair ==
    /\ Idle
    /\ \E left \in Queries, right \in Queries, proximity \in Proximities :
          QueryPairProximityDocids(left, right, proximity)

SpecPair == InitPair /\ [][NextPair]_vars

\* the tables of posting lists over `keys` that miss at least one key
Partial(keys) == UNION {[D -> Bitmaps] : D \in (SUBSET keys) \ {keys}}

\* dictionaries, word posting lists and prefix posting lists
DocidsIndexes ==
    {Index(wd, wpd, NoEntry, NoEntry, fst, pfst, <<>>, {}) :
        wd \in Partial(Vocab),
        wpd \in Partial(QueryWords),
        fst \in {Vocab, {A, AB}, {AB, BB}, {}},
        pfst \in {{}, {A}}}

InitDocids == NoCall /\ ctx \in DocidsIndexes

NextDocids == Idle /\ \E query \in Queries : QueryDocids(query)

SpecDocids == InitDocids /\ [][NextDocids]_vars

\* the lists of at most n criteria
RECURSIVE CriteriaLists(_)
CriteriaLists(n) ==
    IF n = 0 THEN {<<>>}
    ELSE CriteriaLists(n - 1)
         \cup {Append(l, name) : l \in {x \in CriteriaLists(n - 1) : Len(x) = n - 1},
                                 name \in Names}

\* the criteria of the index, readable or not
BuildIndexes ==
    {Index(FixtureWordDocids, FixtureWordPrefixDocids, NoEntry, NoEntry, Vocab, {A},
           names, failing) :
        names \in CriteriaLists(MaxCriteria),
        failing \in {{}, {"criteria"}, {"faceted_fields"}}}

InitBuild == NoCall /\ ctx \in BuildIndexes

NextBuild ==
    /\ Idle
    /\ \E query_tree \in {None, Some(Query(Exact(A, FALSE)))},
          facet_candidates \in {None, Some(Docs)} :
          Build(query_tree, facet_candidates)

SpecBuild == InitBuild /\ [][NextBuild]_vars

\* the leaves of the query trees
TreeQueries ==
    {Exact(A, TRUE), Exact(A, FALSE), Exact(BB, FALSE), Tolerant(A, MaxTypo, FALSE)}

\* the query trees of n nodes, and the lists of trees of n nodes in all
RECURSIVE Trees(_)
RECURSIVE Forests(_)
Forests(n) ==
    IF n = 0 THEN {<<>>}
    ELSE {<<f[1]>> \o f[2] :
            f \in UNION {Trees(k) \X Forests(n - k) : k \in 1..n}}

Trees(n) ==
    IF n = 1 THEN {Query(q) : q \in TreeQueries}
    ELSE {And(ops) : ops \in Forests(n - 1)}
         \cup {Or(FALSE, ops) : ops \in Forests(n - 1)}
         \cup {Consecutive(ops) : ops \in Forests(n - 1)}

\* the trees of at most MaxNodes nodes; the flag of Or, which resolve_operation
\* does not read, takes both values at the root
QueryTrees ==
    LET trees == UNION {Trees(n) : n \in 1..MaxNodes}
    IN  trees \cup {Or(TRUE, t.ops) : t \in {u \in trees : u.op = "Or"}}

\* pair tables with two posting lists at the proximity of neighbours
SparsePairDocids ==
    (<<A, AB, ConsecutiveProximity>> :> Docs) @@ (<<AB, A, ConsecutiveProximity>> :> {1})

\* word tables where a dictionary word has no posting list
SparseWordDocids == (AB :> {MaxDoc})

\* word tables, pair tables and prefix cache of the snapshots, and two
\* snapshots with a table whose reads fail
TreeIndexes ==
    {Index(x[1][1], x[1][2], x[2][1], x[2][2], Vocab, x[3], <<>>, {}) :
        x \in ({<<FixtureWordDocids, FixtureWordPrefixDocids>>}
                  \X {<<FixturePairDocids, FixturePrefixPairDocids>>} \X {{}, {A}})
              \cup ({<<FixtureWordDocids, FixtureWordPrefixDocids>>}
                       \X {<<SparsePairDocids, NoEntry>>} \X {{A}})
              \cup ({<<FixtureWordDocids, FixtureWordPrefixDocids>>}
                       \X {<<NoEntry, NoEntry>>} \X {{}})
              \cup ({<<SparseWordDocids, NoEntry>>}
                       \X {<<FixturePairDocids, FixturePrefixPairDocids>>} \X {{A}})
              \cup ({<<SparseWordDocids, NoEntry>>}
                       \X {<<SparsePairDocids, NoEntry>>} \X {{}, {A}})}
    \cup {Index(FixtureWordDocids, FixtureWordPrefixDocids, FixturePairDocids,
                FixturePrefixPairDocids, Vocab, {A}, <<>>, {"word_pair_proximity_docids"}),
          Index(FixtureWordDocids, FixtureWordPrefixDocids, SparsePairDocids,
                NoEntry, Vocab, {A}, <<>>, {"word_docids"})}

InitTree == NoCall /\ ctx \in TreeIndexes

NextTree ==
    /\ Idle
    /\ \E query_tree \in QueryTrees, ties \in BOOLEAN : ResolveQueryTree(query_tree, ties)

SpecTree == InitTree /\ [][NextTree]_vars

\* resolver caches: none, and the trees of one or two nodes under two
\* proximities, all with the empty bitmap or all with every document
CacheKeys == (Trees(1) \cup Trees(2)) \X {0, ConsecutiveProximity}
Caches == {<<>>, [k \in CacheKeys |-> {}], [k \in CacheKeys |-> Docs]}

CacheIndexes ==
    {Index(FixtureWordDocids, FixtureWordPrefixDocids, FixturePairDocids,
           FixturePrefixPairDocids, Vocab, {A}, <<>>, {}),
     Index(SparseWordDocids, NoEntry, SparsePairDocids, NoEntry, Vocab, {}, <<>>, {})}

InitCache ==
    /\ call = [fn |-> "none", args |-> <<>>]
    /\ ret = [ok |-> TRUE, v |-> {}, err |-> ""]
    /\ log = <<>>
    /\ wdcache = <<>>
    /\ cache \in Caches
    /\ ctx \in CacheIndexes

NextCache ==
    /\ Idle
    /\ \E query_tree \in QueryTrees, ties \in BOOLEAN : ResolveQueryTree(query_tree, ties)

SpecCache == InitCache /\ [][NextCache]_vars

\* the strings of a key are UTF-8; the last byte is any u8
Strs == {b \in BytesUpTo(MaxLen) : is_utf8(b)}
LastBytes == {NUL, ConsecutiveProximity, MaxU8}
Keys == Strs \X Strs \X LastBytes

BytesEncode(s1, s2, n) ==
    /\ Idle
    /\ call' = [fn |-> "bytes_encode", args |-> <<s1, s2, n>>]
    /\ ret' = [ok |-> TRUE, v |-> bytes_encode(s1, s2, n), err |-> ""]
    /\ UNCHANGED <<ctx, log, wdcache, cache>>

\* the bytes of a stored key, or the bytes bytes_encode has just returned
BytesDecode(bytes) ==
    /\ \/ Idle
       \/ call.fn = "bytes_encode" /\ ret.v = Some(bytes)
    /\ call' = [fn |-> "bytes_decode", args |-> <<bytes>>]
    /\ ret' = [ok |-> TRUE, v |-> bytes_decode(bytes), err |-> ""]
    /\ UNCHANGED <<ctx, log, wdcache, cache>>

InitCodec ==
    /\ NoCall
    /\ ctx = Index(NoEntry, NoEntry, NoEntry, NoEntry, {}, {}, <<>>, {})

NextCodec ==
    \/ Idle /\ \E key \in Keys : BytesEncode(key[1], key[2], key[3])
    \/ Idle /\ \E bytes \in BytesUpTo(MaxLen + 2) : BytesDecode(bytes)
    \/ call.fn = "bytes_encode" /\ BytesDecode(ret.v[1])

SpecCodec == InitCodec /\ [][NextCodec]_vars

----------------------------------------------------------------------------
(* What the claims speak of *)

\* the posting list of a key, empty when the key is missing
Posting(table, key) == IF key \in DOMAIN ctx[table] THEN ctx[table][key] ELSE {}

\* the dictionary words word_derivations(word, is_prefix, max_typo) yields
Derivations(word, is_prefix, max_typo) ==
    {w \in ctx.words_fst : dfa_distance(word, is_prefix, w) <= max_typo}

\* the tables a call read
TablesRead == {log[i][1] : i \in 1..Len(log)}
PairTables == {"word_pair_proximity_docids", "word_prefix_pair_proximity_docids"}
WordTables == {"word_docids", "word_prefix_docids"}

PairCall == call.fn = "query_pair_proximity_docids"

\* left-derivations and right-derivations of a pair
LeftWords(left) ==
    IF left.kind = "Exact" THEN {left.word}
    ELSE Derivations(left.word, FALSE, left.typo)

RightWords(right) ==
    IF right.kind = "Exact"
    THEN IF right.prefix THEN Derivations(right.word, TRUE, 0) ELSE {right.word}
    ELSE Derivations(right.word, right.prefix, right.typo)

\* right is Exact, with prefix, and in the prefix cache
RightCached(right) ==
    right.kind = "Exact" /\ right.prefix /\ right.word \in ctx.words_prefixes_fst

----------------------------------------------------------------------------
(* C5: for 8 <= p <= 255 query_pair_proximity_docids(left, right, p) is     *)
(* query_docids(left) \cap query_docids(right) and reads neither pair table; *)
(* for p <= 7 the result is made of what the pair tables hold and the word   *)
(* tables are not read                                                       *)
C5_ProximityCollapse ==
    PairCall =>
        LET left == call.args[1]
            right == call.args[2]
            p == call.args[3]
        IN  /\ p >= ProximityCap =>
                /\ ret.ok
                /\ ret.v = query_docids(ctx, left, Fresh).v \cap query_docids(ctx, right, Fresh).v
                /\ TablesRead \cap PairTables = {}
            /\ p < ProximityCap =>
                /\ ret.ok
                /\ TablesRead \cap WordTables = {}
                /\ ret.v = UNION {Posting(log[i][1], log[i][2]) :
                                    i \in {j \in 1..Len(log) : log[j][1] \in PairTables}}

\* a call at proximity 255 that returns documents, and one below 8 that does
C5_Witness ==
    /\ PairCall
    /\ call.args[3] = MaxU8
    /\ ret.v # {}
    /\ call.args[1] # call.args[2]

----------------------------------------------------------------------------
(* C6 as stated: a document of the (left, right, p') posting list for some  *)
(* p' <= p is in the result for p, and the result for p is a subset of the   *)
(* result for every larger proximity                                         *)
C6_MonotoneInProximity ==
    PairCall =>
        LET left == call.args[1]
            right == call.args[2]
            p == call.args[3]
        IN  /\ \A q \in TableProximities, lw \in LeftWords(left), rw \in RightWords(right) :
                  (q <= p /\ ~RightCached(right)) =>
                      Posting("word_pair_proximity_docids", <<lw, rw, q>>) \subseteq ret.v
            /\ \A q \in Proximities :
                  q >= p => ret.v \subseteq query_pair_proximity_docids(ctx, left, right, q, Fresh).v

(* C6 amended: for p <= 7 the result for p holds the documents stored under *)
(* proximity p itself: every document of the (lw, rw, p) posting list of     *)
(* derived words is in it, and every document in it is in a posting list     *)
(* stored under p; what is stored under another proximity is not returned    *)
C6_ExactProximity ==
    (PairCall /\ call.args[3] < ProximityCap) =>
        LET left == call.args[1]
            right == call.args[2]
            p == call.args[3]
        IN  /\ ret.ok
            /\ \A lw \in LeftWords(left) :
                  IF RightCached(right)
                  THEN Posting("word_prefix_pair_proximity_docids", <<lw, right.word, p>>)
                           \subseteq ret.v
                  ELSE \A rw \in RightWords(right) :
                           Posting("word_pair_proximity_docids", <<lw, rw, p>>) \subseteq ret.v
            /\ ret.v \subseteq UNION {Posting(t, k) :
                                        t \in PairTables,
                                        k \in {x \in (Vocab \X Vocab \X TableProximities) : x[3] = p}}

\* the call is made at proximity 7, the pair is stored at proximity 1 only,
\* and nothing is returned
C6_Witness ==
    /\ PairCall
    /\ call.args[3] = ProximityCap - 1
    /\ \E lw \in LeftWords(call.args[1]), rw \in RightWords(call.args[2]) :
          Posting("word_pair_proximity_docids", <<lw, rw, ConsecutiveProximity>>) # {}
    /\ ~RightCached(call.args[2])
    /\ ret.ok /\ ret.v = {}

----------------------------------------------------------------------------
(* C10: for p <= 7 the result is the union over left-derivations x          *)
(* right-derivations of the (lw, rw, p) pair posting lists, and, when right  *)
(* is Exact with prefix and in the prefix cache, the union over the          *)
(* left-derivations of the (lw, right, p) prefix-pair posting lists          *)
C10_CartesianUnion ==
    (PairCall /\ call.args[3] < ProximityCap) =>
        LET left == call.args[1]
            right == call.args[2]
            p == call.args[3]
        IN  /\ ret.ok
            /\ ret.v =
                 IF RightCached(right)
                 THEN UNION {Posting("word_prefix_pair_proximity_docids", <<lw, right.word, p>>) :
                                lw \in LeftWords(left)}
                 ELSE UNION {Posting("word_pair_proximity_docids", <<w[1], w[2], p>>) :
                                w \in LeftWords(left) \X RightWords(right)}

\* a Tolerant left with the prefix flag set, several derivations on both
\* sides, and a document found
C10_Witness ==
    /\ PairCall
    /\ call.args[3] < ProximityCap
    /\ call.args[1].kind = "Tolerant" /\ call.args[1].prefix
    /\ Cardinality(LeftWords(call.args[1])) > 1
    /\ Cardinality(RightWords(call.args[2])) > 1
    /\ ~RightCached(call.args[2])
    /\ ret.v # {}

----------------------------------------------------------------------------
(* C8: query_docids(q) is the posting list of w for Exact(w) without prefix, *)
(* the prefix posting list of w for Exact(w) with prefix and w in the prefix *)
(* cache, the union of the posting lists of word_derivations(w, true, 0) for *)
(* Exact(w) with prefix and w not in the cache, and the union of the posting *)
(* lists of word_derivations(w, q.prefix, t) for Tolerant(w, t)              *)
C8_QueryDocids ==
    call.fn = "query_docids" =>
        LET q == call.args[1]
        IN  /\ ret.ok
            /\ ret.v =
                 IF q.kind = "Exact" /\ ~q.prefix
                 THEN Posting("word_docids", q.word)
                 ELSE IF q.kind = "Exact" /\ q.word \in ctx.words_prefixes_fst
                 THEN Posting("word_prefix_docids", q.word)
                 ELSE IF q.kind = "Exact"
                 THEN UNION {Posting("word_docids", w) : w \in Derivations(q.word, TRUE, 0)}
                 ELSE UNION {Posting("word_docids", w) :
                                w \in Derivations(q.word, q.prefix, q.typo)}

\* Exact with prefix, not in the prefix cache although a prefix posting list is
\* stored, and the union of two derivations is larger than each posting list
C8_Witness ==
    /\ call.fn = "query_docids"
    /\ call.args[1].kind = "Exact" /\ call.args[1].prefix
    /\ call.args[1].word \notin ctx.words_prefixes_fst
    /\ call.args[1].word \in DOMAIN ctx.word_prefix_docids
    /\ \A w \in Derivations(call.args[1].word, TRUE, 0) :
          Posting("word_docids", w) # ret.v
    /\ ret.v # Posting("word_prefix_docids", call.args[1].word)

----------------------------------------------------------------------------
(* C7: build makes one layer per recognized name, in list order: the first  *)
(* recognized name is the initial criterion and the only one handed the      *)
(* query tree and the facet candidates, each later one wraps the pipeline    *)
(* built so far, an unrecognized name adds nothing, and with no recognized   *)
(* name the fetcher itself is seeded with the query tree and the candidates  *)

\* the layers under a fetcher, the initial criterion first
RECURSIVE Layers(_)
Layers(criterion) ==
    IF criterion.parent = None THEN <<criterion>>
    ELSE Append(Layers(criterion.parent[1]), criterion)

IsRecognized(name) == name \in RecognizedNames

C7_BuildPipeline ==
    call.fn = "build" =>
        LET recognized == SelectSeq(ctx.criteria, IsRecognized)
            fails == \/ "criteria" \in ctx.failing
                     \/ /\ "faceted_fields" \in ctx.failing
                        /\ \E i \in 1..Len(recognized) : recognized[i] \in {"Asc", "Desc"}
        IN  /\ ret.ok = ~fails
            /\ ret.ok =>
                 LET fetcher == ret.v
                     layers == IF fetcher.parent = None THEN <<>> ELSE Layers(fetcher.parent[1])
                 IN  /\ fetcher.criterion = "Fetcher"
                     /\ Len(layers) = Len(recognized)
                     /\ \A i \in 1..Len(layers) :
                           /\ layers[i].criterion = recognized[i]
                           /\ layers[i].initial = (i = 1)
                           /\ layers[i].query_tree = (IF i = 1 THEN call.args[1] ELSE None)
                           /\ layers[i].facet_candidates = (IF i = 1 THEN call.args[2] ELSE None)
                     /\ fetcher.initial = (recognized = <<>>)
                     /\ fetcher.query_tree = (IF recognized = <<>> THEN call.args[1] ELSE None)
                     /\ fetcher.facet_candidates
                            = (IF recognized = <<>> THEN call.args[2] ELSE None)

\* an unrecognized name first and another between two recognized ones, with a
\* query tree and facet candidates to hand over
C7_Witness ==
    /\ call.fn = "build"
    /\ ret.ok
    /\ Len(ctx.criteria) = 3
    /\ ~IsRecognized(ctx.criteria[1])
    /\ IsRecognized(ctx.criteria[2])
    /\ IsRecognized(ctx.criteria[3])
    /\ call.args[1] # None /\ call.args[2] # None
    /\ ret.v.parent # None

\* the same with the unrecognized name in wrapping position
C7_WitnessWrapping ==
    /\ call.fn = "build"
    /\ ret.ok
    /\ Len(ctx.criteria) = 3
    /\ IsRecognized(ctx.criteria[1])
    /\ ~IsRecognized(ctx.criteria[2])
    /\ IsRecognized(ctx.criteria[3])
    /\ call.args[1] # None /\ call.args[2] # None

----------------------------------------------------------------------------
(* The claims about resolve_query_tree *)

TreeCall == call.fn = "resolve_query_tree"

\* what resolve_query_tree returns for a tree on the index of the state
Resolved(tree) == Returned(resolve_query_tree(ctx, tree, TRUE, Fresh))

\* the permutations of a list
Reorderings(ops) ==
    {[i \in 1..Len(ops) |-> ops[f[i]]] :
        f \in {g \in [1..Len(ops) -> 1..Len(ops)] :
                  \A i, j \in 1..Len(ops) : g[i] = g[j] => i = j}}

\* the tree has a Consecutive node one of whose children is not a leaf
RECURSIVE HasNonLeafInConsecutive(_)
HasNonLeafInConsecutive(tree) ==
    /\ tree.op # "Query"
    /\ \/ /\ tree.op = "Consecutive"
          /\ \E i \in 1..Len(tree.ops) : tree.ops[i].op # "Query"
       \/ \E i \in 1..Len(tree.ops) : HasNonLeafInConsecutive(tree.ops[i])

----------------------------------------------------------------------------
(* C1: resolve_query_tree(And(ops)) is the intersection of the children's   *)
(* bitmaps, whatever the order of ops                                        *)
C1_AndIsIntersection ==
    (TreeCall /\ call.args[1].op = "And") =>
        LET ops == call.args[1].ops
            n == Len(ops)
        IN  /\ (\A i \in 1..n : Resolved(ops[i]).ok) =>
                  /\ ret.ok
                  /\ ret.v = {d \in Docs : \A i \in 1..n : d \in Resolved(ops[i]).v}
            /\ \A reordered \in Reorderings(ops) :
                  /\ Resolved(And(reordered)).ok = ret.ok
                  /\ Resolved(And(reordered)).v = ret.v

\* three children of three different cardinalities, the smallest one last,
\* and a document in all of them
C1_Witness ==
    /\ TreeCall
    /\ call.args[1].op = "And"
    /\ Len(call.args[1].ops) = 3
    /\ ret.ok /\ ret.v # {}
    /\ Cardinality(Resolved(call.args[1].ops[3]).v) < Cardinality(Resolved(call.args[1].ops[1]).v)
    /\ Resolved(call.args[1].ops[1]).v # Resolved(call.args[1].ops[2]).v

----------------------------------------------------------------------------
(* C2: resolve_query_tree(Or(flag, ops)) is the union of the children's     *)
(* bitmaps, whatever the flag, the order and the nesting of ops              *)
C2_OrIsUnion ==
    (TreeCall /\ call.args[1].op = "Or") =>
        LET ops == call.args[1].ops
            flag == call.args[1].flag
            n == Len(ops)
            Same(tree) == Resolved(tree).ok = ret.ok /\ Resolved(tree).v = ret.v
        IN  /\ (\A i \in 1..n : Resolved(ops[i]).ok) =>
                  /\ ret.ok
                  /\ ret.v = UNION {Resolved(ops[i]).v : i \in 1..n}
            /\ Same(Or(~flag, ops))
            /\ Resolved(Or(flag, <<>>)).ok /\ Resolved(Or(flag, <<>>)).v = {}
            /\ \A reordered \in Reorderings(ops) : Same(Or(flag, reordered))
            /\ n = 3 =>
                  /\ Same(Or(flag, <<ops[1], Or(flag, <<ops[2], ops[3]>>)>>))
                  /\ Same(Or(flag, <<Or(flag, <<ops[1], ops[2]>>), ops[3]>>))
                  /\ Same(Or(flag, <<ops[3], ops[2], ops[1]>>))

\* three children, none of which holds all the documents of the union
C2_Witness ==
    /\ TreeCall
    /\ call.args[1].op = "Or"
    /\ Len(call.args[1].ops) = 3
    /\ ret.ok
    /\ \A i \in 1..3 : Resolved(call.args[1].ops[i]).v # ret.v

----------------------------------------------------------------------------
(* C3: for n >= 2 leaves resolve_query_tree(Consecutive(leaves)) is the     *)
(* intersection of the pair bitmaps at proximity 1 of the adjacent leaves,   *)
(* and empty as soon as one pair is                                          *)
C3_ConsecutiveIsPairs ==
    (/\ TreeCall
     /\ call.args[1].op = "Consecutive"
     /\ Len(call.args[1].ops) >= 2
     /\ \A i \in 1..Len(call.args[1].ops) : call.args[1].ops[i].op = "Query") =>
        LET ops == call.args[1].ops
            n == Len(ops)
            Pair(i) == Returned(query_pair_proximity_docids(
                                    ctx, ops[i].q, ops[i + 1].q, ConsecutiveProximity, Fresh))
        IN  /\ (\A i \in 1..(n - 1) : Pair(i).ok) =>
                  /\ ret.ok
                  /\ ret.v = {d \in Docs : \A i \in 1..(n - 1) : d \in Pair(i).v}
            /\ (\E i \in 1..(n - 1) :
                    /\ Pair(i).ok /\ Pair(i).v = {}
                    /\ \A j \in 1..(i - 1) : Pair(j).ok) =>
                  (ret.ok /\ ret.v = {})
            /\ (n = 2 /\ Pair(1).ok) => (ret.ok /\ ret.v = Pair(1).v)

\* three leaves whose two pairs differ and share a document
C3_Witness ==
    /\ TreeCall
    /\ call.args[1].op = "Consecutive"
    /\ Len(call.args[1].ops) = 3
    /\ \A i \in 1..3 : call.args[1].ops[i].op = "Query"
    /\ ret.ok /\ ret.v # {}
    /\ Returned(query_pair_proximity_docids(ctx, call.args[1].ops[1].q, call.args[1].ops[2].q,
                                            ConsecutiveProximity, Fresh)).v
         # Returned(query_pair_proximity_docids(ctx, call.args[1].ops[2].q,
                                                call.args[1].ops[3].q,
                                                ConsecutiveProximity, Fresh)).v

----------------------------------------------------------------------------
(* C4: resolving a tree with a Consecutive node that has a non-leaf child   *)
(* returns an error and never a bitmap                                       *)
C4_NonLeafInConsecutiveIsError ==
    (TreeCall /\ HasNonLeafInConsecutive(call.args[1])) => ~ret.ok

----------------------------------------------------------------------------
(* C9: when no index read fails and the Consecutive nodes have leaf         *)
(* children only, resolve_query_tree returns a bitmap, the one it returns    *)
(* on the index where every missing key has an empty posting list            *)

\* the index with an empty posting list under every key that is missing
Filled(c) ==
    [c EXCEPT
        !.word_docids = [k \in Vocab |-> IF k \in DOMAIN @ THEN @[k] ELSE {}],
        !.word_prefix_docids = [k \in Vocab |-> IF k \in DOMAIN @ THEN @[k] ELSE {}],
        !.word_pair_proximity_docids =
            [k \in Vocab \X Vocab \X TableProximities |-> IF k \in DOMAIN @ THEN @[k] ELSE {}],
        !.word_prefix_pair_proximity_docids =
            [k \in Vocab \X Vocab \X TableProximities |-> IF k \in DOMAIN @ THEN @[k] ELSE {}]]

\* the reads of the call that found no key
MissingReads ==
    {i \in 1..Len(log) :
        /\ log[i][1] \in PairTables \cup WordTables
        /\ log[i][2] \notin DOMAIN ctx[log[i][1]]}

C9_MissingIsEmpty ==
    (TreeCall /\ ctx.failing = {} /\ ~HasNonLeafInConsecutive(call.args[1])) =>
        /\ ret.ok
        /\ ret.v = resolve_query_tree(Filled(ctx), call.args[1], TRUE, Fresh).v

\* a Consecutive node that read a missing key of a pair table and found
\* documents under another key all the same
C9_Witness ==
    /\ TreeCall
    /\ ctx.failing = {}
    /\ call.args[1].op = "Consecutive"
    /\ ~HasNonLeafInConsecutive(call.args[1])
    /\ {log[i][1] : i \in MissingReads} \cap PairTables # {}
    /\ ret.ok /\ ret.v # {}

----------------------------------------------------------------------------
(* C11: a prefix posting list is read only after in_prefix_cache answered   *)
(* true for its word, the word of an Exact leaf with prefix = true (the     *)
(* right leaf of the pair for a prefix-pair posting list)                   *)

\* the leaves of a tree
RECURSIVE LeavesOf(_)
LeavesOf(tree) ==
    IF tree.op = "Query" THEN {tree.q}
    ELSE UNION {LeavesOf(tree.ops[i]) : i \in 1..Len(tree.ops)}

\* the leaves that stand on the right of a pair of a Consecutive node
RECURSIVE RightLeavesOf(_)
RightLeavesOf(tree) ==
    IF tree.op = "Query" THEN {}
    ELSE IF tree.op = "Consecutive"
    THEN {tree.ops[i].q : i \in {k \in 2..Len(tree.ops) : tree.ops[k].op = "Query"}}
    ELSE UNION {RightLeavesOf(tree.ops[i]) : i \in 1..Len(tree.ops)}

\* in_prefix_cache(word) was called before the i-th read and answered true
TestedBefore(word, i) ==
    /\ word \in ctx.words_prefixes_fst
    /\ \E j \in 1..(i - 1) : log[j] = <<"in_prefix_cache", word>>

C11_CacheTestPrecedesLookup ==
    TreeCall =>
        \A i \in 1..Len(log) :
            /\ log[i][1] = "word_prefix_docids" =>
                  /\ TestedBefore(log[i][2], i)
                  /\ Exact(log[i][2], TRUE) \in LeavesOf(call.args[1])
            /\ log[i][1] = "word_prefix_pair_proximity_docids" =>
                  /\ TestedBefore(log[i][2][2], i)
                  /\ Exact(log[i][2][2], TRUE) \in RightLeavesOf(call.args[1])

\* a resolution that read two prefix-pair posting lists, one for each
\* derivation of a Tolerant left leaf, after a cache test
C11_Witness ==
    /\ TreeCall
    /\ Cardinality({i \in 1..Len(log) : log[i][1] = "word_prefix_pair_proximity_docids"}) >= 2
    /\ \E i \in 1..Len(log) : log[i][1] = "in_prefix_cache"

----------------------------------------------------------------------------
(* C12: resolve_query_tree leaves the resolver cache as it found it, and    *)
(* returns the bitmap it returns with an empty cache and the one a second   *)
(* resolution returns with the caches the first one left                    *)
C12_CacheUntouched ==
    [][call'.fn = "resolve_query_tree" =>
          /\ cache' = cache
          /\ ret' = Returned(resolve_query_tree(ctx, call'.args[1], TRUE, St(<<>>, <<>>, <<>>)))
          /\ ret' = Returned(resolve_query_tree(ctx, call'.args[1], TRUE,
                                                St(<<>>, wdcache', cache')))]_vars

\* a resolution that found the tree in the cache with another bitmap than the
\* one it returned
C12_Witness ==
    /\ TreeCall
    /\ <<call.args[1], 0>> \in DOMAIN cache
    /\ ret.ok /\ ret.v # {}
    /\ cache[<<call.args[1], 0>>] # ret.v
    /\ call.args[1].op # "Query"

----------------------------------------------------------------------------
(* C13: bytes_encode writes s1, a NUL byte, s2 and n as the last byte;      *)
(* bytes_decode of these bytes gives (s1, s2, n) back when s1 has no NUL    *)
(* byte, and two keys with NUL-free s1 never have the same bytes            *)

NulFree(s) == \A i \in 1..Len(s) : s[i] # NUL

C13_RoundTrip ==
    [][/\ call'.fn = "bytes_encode" =>
            /\ ret'.v = Some(call'.args[1] \o <<NUL>> \o call'.args[2] \o <<call'.args[3]>>)
            /\ NulFree(call'.args[1]) =>
                  \A key \in Keys :
                      (NulFree(key[1]) /\ bytes_encode(key[1], key[2], key[3]) = ret'.v)
                          => key = call'.args
       /\ (call.fn = "bytes_encode" /\ call'.fn = "bytes_decode" /\ NulFree(call.args[1])) =>
            ret'.v = Some(call.args)]_vars

\* the bytes of a key with a two-byte character in s1 and a NUL byte in s2
\* were decoded to the key
C13_Witness ==
    /\ call.fn = "bytes_decode"
    /\ ret.v # None
    /\ Len(ret.v[1][1]) = 2 /\ ~(\E i \in 1..2 : ret.v[1][1][i] < 128)
    /\ ~NulFree(ret.v[1][2])
    /\ bytes_encode(ret.v[1][1], ret.v[1][2], ret.v[1][3]) = Some(call.args[1])

====
